---- MODULE Spec2Model ----
(***************************************************************************)
(* NanoNet (src/NanoNet.py): the sequence padder (pad_seq), the one-hot    *)
(* encoder (generate_input), the PDB writer (matrix_to_pdb) and the naming *)
(* of the output files in run_nanonet.                                     *)
(*                                                                         *)
(* Python strings are modelled as sequences of one-character strings       *)
(* (1-based in TLA+, 0-based in Python: At(s, p) is s[p]).  A raised       *)
(* exception is a result/record naming the exception.  The values of the   *)
(* coordinate matrix are opaque: cell (r, c) holds the value <<r, c>>.     *)
(***************************************************************************)
EXTENDS Integers, Sequences, FiniteSets, TLC

VARIABLES
    seq,          \* the `seq` / `sequence` argument of the call
    rows,         \* matrix_to_pdb: number of rows of coord_matrix
    pc,           \* position of the call in progress
    padded,       \* local `seq` after pad_seq (line 84, line 66)
    aa,           \* matrix_to_pdb: outer loop index (line 87)
    j,            \* matrix_to_pdb: inner loop index (line 93)
    i,            \* matrix_to_pdb: residue serial (line 85); generate_input: loop index (line 70)
    k,            \* matrix_to_pdb: atom serial (line 86)
    out,          \* matrix_to_pdb: the records written to pdb_file so far
    seq_matrix,   \* generate_input: the matrix being filled (line 69)
    warning,      \* generate_input: whether the warning of line 63 was printed
    names,        \* run_nanonet: the list `names` (line 165)
    files,        \* run_nanonet: file name -> indices of the records written in it
    written,      \* run_nanonet: how many records have been written out
    single_file   \* run_nanonet: the single_file flag

vars == <<seq, rows, pc, padded, aa, j, i, k, out, seq_matrix, warning, names, files,
          written, single_file>>

writerVars == <<seq, rows, padded, aa, j, i, k, out>>
encVars == <<seq_matrix, warning>>
runVars == <<names, files, written, single_file>>

----------------------------------------------------------------------------
(* Program constants *)

NB_MAX_LENGTH == 140
FEATURE_NUM == 22

AA_DICT ==
    [s \in {"A", "C", "D", "E", "F", "G", "H", "I", "K", "L", "M", "N", "P",
            "Q", "R", "S", "T", "W", "Y", "V", "-", "X"} |->
        CASE s = "A" -> 0  [] s = "C" -> 1  [] s = "D" -> 2  [] s = "E" -> 3
          [] s = "F" -> 4  [] s = "G" -> 5  [] s = "H" -> 6  [] s = "I" -> 7
          [] s = "K" -> 8  [] s = "L" -> 9  [] s = "M" -> 10 [] s = "N" -> 11
          [] s = "P" -> 12 [] s = "Q" -> 13 [] s = "R" -> 14 [] s = "S" -> 15
          [] s = "T" -> 16 [] s = "W" -> 17 [] s = "Y" -> 18 [] s = "V" -> 19
          [] s = "-" -> 21 [] s = "X" -> 20]

\* Bio.PDB.Polypeptide.one_to_three: the 20 standard residues; any other
\* character raises KeyError.
one_to_three ==
    [s \in {"A", "C", "D", "E", "F", "G", "H", "I", "K", "L", "M", "N", "P",
            "Q", "R", "S", "T", "W", "Y", "V"} |->
        CASE s = "A" -> "ALA" [] s = "C" -> "CYS" [] s = "D" -> "ASP"
          [] s = "E" -> "GLU" [] s = "F" -> "PHE" [] s = "G" -> "GLY"
          [] s = "H" -> "HIS" [] s = "I" -> "ILE" [] s = "K" -> "LYS"
          [] s = "L" -> "LEU" [] s = "M" -> "MET" [] s = "N" -> "ASN"
          [] s = "P" -> "PRO" [] s = "Q" -> "GLN" [] s = "R" -> "ARG"
          [] s = "S" -> "SER" [] s = "T" -> "THR" [] s = "W" -> "TRP"
          [] s = "Y" -> "TYR" [] s = "V" -> "VAL"]

backbone == <<"N", "CA", "C", "O", "CB">>

----------------------------------------------------------------------------
(* Bounds of the model and the inputs drawn within them *)

MaxShortLen == 3       \* short inputs: every sequence of at most this length
LongSlack == 1         \* long inputs: lengths NB_MAX_LENGTH -/+ LongSlack
MaxMissingRows == 1    \* rows a coordinate matrix may lack at its end

\* "Z" stands for any character outside the 22-symbol alphabet.
InputSymbols == {"A", "G", "X", "-", "Z"}

ShortSeqs == UNION {[1..n -> InputSymbols] : n \in 0..MaxShortLen}

\* A run of "A" closed by any input symbol.
LongSeqs ==
    {[p \in 1..n |-> IF p = n THEN s ELSE "A"] :
        n \in (NB_MAX_LENGTH - LongSlack)..(NB_MAX_LENGTH + LongSlack),
        s \in InputSymbols}

Inputs == ShortSeqs \cup LongSeqs

\* Coordinate matrices: complete, cut short at the end, or cut in the middle.
RowChoices ==
    {NB_MAX_LENGTH - m : m \in 0..MaxMissingRows} \cup {NB_MAX_LENGTH \div 2}

----------------------------------------------------------------------------
(* Python helpers *)

\* s[p], 0-based
At(s, p) == s[p + 1]

\* n * c for a one-character string c: empty when n <= 0
Repeat(c, n) == [x \in 1..n |-> c]

\* pad_seq with the odd symbol of padding put in front
pad_seq_front_heavy(s) ==
    LET seq_len == Len(s)
        up_pad == (NB_MAX_LENGTH - seq_len + 1) \div 2
        down_pad == NB_MAX_LENGTH - up_pad - seq_len
    IN  Repeat("-", up_pad) \o s \o Repeat("-", down_pad)

\* pad_seq (lines 33-39); // is floor division, as \div is
pad_seq(s) ==
    LET seq_len == Len(s)
        up_pad == (NB_MAX_LENGTH - seq_len) \div 2
        down_pad == NB_MAX_LENGTH - up_pad - seq_len
    IN  Repeat("-", up_pad) \o s \o Repeat("-", down_pad)

----------------------------------------------------------------------------
(* matrix_to_pdb (lines 76-108), one action per step of its two loops *)

\* backbone[j][0], the first character of an atom name
FirstChar(name) ==
    CASE name = "N" -> "N" [] name = "CA" -> "C" [] name = "C" -> "C"
      [] name = "O" -> "O" [] name = "CB" -> "C"

\* one ATOM_LINE (lines 102-105), its fields without the column spacing
AtomRecord(serial, name, resName, resSeq, row, col) ==
    [rec |-> "ATOM", serial |-> serial, name |-> name, resName |-> resName,
     resSeq |-> resSeq, x |-> <<row, col>>, y |-> <<row, col + 1>>,
     z |-> <<row, col + 2>>, element |-> FirstChar(name)]

HeaderRecord == [rec |-> "HEADER"]
EndRecord == [rec |-> "END"]

\* the call with a padding of its own: the sequence left-aligned in the window
CallMatrixToPdbLeftAligned(s, r) ==
    /\ seq' = s
    /\ rows' = r
    /\ padded' = s \o Repeat("-", NB_MAX_LENGTH - Len(s))
    /\ i' = 1
    /\ k' = 1
    /\ aa' = 0
    /\ j' = 0
    /\ out' = <<HeaderRecord>>
    /\ pc' = "for_aa"
    /\ UNCHANGED <<encVars, runVars>>

\* the call: line 84-86
CallMatrixToPdb(s, r) ==
    /\ seq' = s
    /\ rows' = r
    /\ padded' = pad_seq(s)
    /\ i' = 1
    /\ k' = 1
    /\ aa' = 0
    /\ j' = 0
    /\ out' = <<HeaderRecord>>
    /\ pc' = "for_aa"
    /\ UNCHANGED <<encVars, runVars>>

\* matrix_to_pdb called on its own
MatrixToPdb(s, r) ==
    /\ pc = "idle"
    /\ CallMatrixToPdb(s, r)

\* line 87-88, seq[aa] == "-"
SkipGap ==
    /\ pc = "for_aa"
    /\ aa < Len(padded)
    /\ At(padded, aa) = "-"
    /\ aa' = aa + 1
    /\ UNCHANGED <<seq, rows, pc, padded, j, i, k, out, encVars, runVars>>

\* line 88-93, seq[aa] != "-"
EnterResidue ==
    /\ pc = "for_aa"
    /\ aa < Len(padded)
    /\ At(padded, aa) # "-"
    /\ j' = 0
    /\ pc' = "for_j"
    /\ UNCHANGED <<seq, rows, padded, aa, i, k, out, encVars, runVars>>

\* line 95: coord_matrix[aa] with aa beyond the matrix
RaiseIndexError ==
    /\ pc = "for_j"
    /\ j < Len(backbone)
    /\ aa >= rows
    /\ pc' = "IndexError"
    /\ UNCHANGED <<writerVars, encVars, runVars>>

\* line 98: one_to_three of a character it does not know
RaiseKeyError ==
    /\ pc = "for_j"
    /\ j < Len(backbone)
    /\ aa < rows
    /\ At(padded, aa) # "X"
    /\ At(padded, aa) \notin DOMAIN one_to_three
    /\ pc' = "KeyError"
    /\ UNCHANGED <<writerVars, encVars, runVars>>

\* line 98 without the code of the unknown residue
one_letter_code_raw(c) == IF c = "X" THEN "X" ELSE one_to_three[c]

one_letter_code(c) == IF c = "X" THEN "UNK" ELSE one_to_three[c]

\* line 99 never true: Glycine written with a CB
NeverSkipped(c, name) == FALSE

\* line 99-100
IsSkippedAtom(c, name) == c = "G" /\ name = "CB"

\* the skipped CB of a Glycine taking an atom serial
SkipCBAllocatingSerial ==
    /\ pc = "for_j"
    /\ j < Len(backbone)
    /\ aa < rows
    /\ At(padded, aa) \in DOMAIN one_to_three \cup {"X"}
    /\ IsSkippedAtom(At(padded, aa), At(backbone, j))
    /\ j' = j + 1
    /\ k' = k + 1
    /\ UNCHANGED <<seq, rows, pc, padded, aa, i, out, encVars, runVars>>

SkipCB ==
    /\ pc = "for_j"
    /\ j < Len(backbone)
    /\ aa < rows
    /\ At(padded, aa) \in DOMAIN one_to_three \cup {"X"}
    /\ IsSkippedAtom(At(padded, aa), At(backbone, j))
    /\ j' = j + 1
    /\ UNCHANGED <<seq, rows, pc, padded, aa, i, k, out, encVars, runVars>>

\* line 102-106
WriteAtom ==
    /\ pc = "for_j"
    /\ j < Len(backbone)
    /\ aa < rows
    /\ At(padded, aa) \in DOMAIN one_to_three \cup {"X"}
    /\ ~IsSkippedAtom(At(padded, aa), At(backbone, j))
    /\ out' = Append(out, AtomRecord(k, At(backbone, j),
                                     one_letter_code(At(padded, aa)), i, aa, 3 * j))
    /\ k' = k + 1
    /\ j' = j + 1
    /\ UNCHANGED <<seq, rows, pc, padded, aa, i, encVars, runVars>>

\* line 107 and the next iteration of line 87
NextResidue ==
    /\ pc = "for_j"
    /\ j = Len(backbone)
    /\ i' = i + 1
    /\ aa' = aa + 1
    /\ pc' = "for_aa"
    /\ UNCHANGED <<seq, rows, padded, j, k, out, encVars, runVars>>

\* line 108
WriteEnd ==
    /\ pc = "for_aa"
    /\ aa = Len(padded)
    /\ out' = Append(out, EndRecord)
    /\ pc' = "done"
    /\ UNCHANGED <<seq, rows, padded, aa, j, i, k, encVars, runVars>>

Init ==
    /\ seq = <<>>
    /\ rows = NB_MAX_LENGTH
    /\ pc = "idle"
    /\ padded = <<>>
    /\ aa = 0
    /\ j = 0
    /\ i = 1
    /\ k = 1
    /\ out = <<>>
    /\ seq_matrix = <<>>
    /\ warning = FALSE
    /\ names = <<>>
    /\ files = <<>>
    /\ written = 0
    /\ single_file = FALSE

Next ==
    \/ \E s \in Inputs, r \in RowChoices : MatrixToPdb(s, r)
    \/ SkipGap
    \/ EnterResidue
    \/ RaiseIndexError
    \/ RaiseKeyError
    \/ SkipCB
    \/ WriteAtom
    \/ NextResidue
    \/ WriteEnd

Spec == Init /\ [][Next]_vars

----------------------------------------------------------------------------
(* generate_input (lines 54-73), one action per iteration of its loop *)

\* np.zeros((NB_MAX_LENGTH, FEATURE_NUM)), line 69
Zeros == [r \in 0..(NB_MAX_LENGTH - 1) |-> [c \in 0..(FEATURE_NUM - 1) |-> 0]]

\* line 71 with the columns of "X" and "-" exchanged
SetOneSwapped(m, p, c) ==
    [m EXCEPT ![p][IF c = "-" THEN 20 ELSE IF c = "X" THEN 21 ELSE AA_DICT[c]] = 1]

\* line 71: seq_matrix[i][AA_DICT[seq[i]]] = 1
SetOne(m, p, c) == [m EXCEPT ![p][AA_DICT[c]] = 1]

\* line 62: "X" in seq
HasUnknown(s) == \E p \in 1..Len(s) : s[p] = "X"

\* the call: lines 62-69
GenerateInput(s) ==
    /\ pc = "idle"
    /\ seq' = s
    /\ warning' = HasUnknown(s)
    /\ padded' = pad_seq(s)
    /\ seq_matrix' = Zeros
    /\ i' = 0
    /\ pc' = "gen_for_i"
    /\ UNCHANGED <<rows, aa, j, k, out, runVars>>

\* lines 70-71, seq[i] a key of AA_DICT
SetRow ==
    /\ pc = "gen_for_i"
    /\ i < NB_MAX_LENGTH
    /\ i < Len(padded)
    /\ At(padded, i) \in DOMAIN AA_DICT
    /\ seq_matrix' = SetOne(seq_matrix, i, At(padded, i))
    /\ i' = i + 1
    /\ UNCHANGED <<seq, rows, pc, padded, aa, j, k, out, warning, runVars>>

\* line 71, seq[i] not a key of AA_DICT: the call raises and returns nothing
GenKeyError ==
    /\ pc = "gen_for_i"
    /\ i < NB_MAX_LENGTH
    /\ i < Len(padded)
    /\ At(padded, i) \notin DOMAIN AA_DICT
    /\ pc' = "gen_KeyError"
    /\ UNCHANGED <<writerVars, encVars, runVars>>

\* line 73: seq_matrix is returned
GenReturn ==
    /\ pc = "gen_for_i"
    /\ i = NB_MAX_LENGTH
    /\ pc' = "encoded"
    /\ UNCHANGED <<writerVars, encVars, runVars>>

NextEncode ==
    \/ \E s \in Inputs : GenerateInput(s)
    \/ SetRow
    \/ GenKeyError
    \/ GenReturn

SpecEncode == Init /\ [][NextEncode]_vars

----------------------------------------------------------------------------
(* run_nanonet (lines 159-208): the names given to the records and the     *)
(* files written.  A file's content is the list of the indices of the      *)
(* records whose structure it holds.  The sequences are taken to be ones   *)
(* generate_input and matrix_to_pdb accept (an exception ends the run);    *)
(* the model's prediction and the side-chain tools are outside the model.  *)

MaxRecords == 12       \* records in the fasta file

\* the names the fasta records carry (seq_record.name)
RecordNames == {<<"a">>, <<"a", "1">>}

Digit == <<"0", "1", "2", "3", "4", "5", "6", "7", "8", "9">>

\* str(i) for i >= 0
RECURSIVE Str(_)
Str(n) == IF n < 10 THEN <<Digit[n + 1]>> ELSE Str(n \div 10) \o <<Digit[(n % 10) + 1]>>

\* line 169: name + str(i)
IndexedName(name, idx) == name \o Str(idx)

\* line 201 and line 190
BackboneFilePath(name) == name \o <<"_nanonet_backbone_cb.pdb">>
SingleFilePath == <<"nanonet_backbone_cb.pdb">>

\* open(path, "w") then the writes of one `with` block
WriteFile(fs, path, content) ==
    [f \in DOMAIN fs \cup {path} |-> IF f = path THEN content ELSE fs[f]]

RunNanonet(sf) ==
    /\ pc = "idle"
    /\ single_file' = sf
    /\ names' = <<>>
    /\ files' = <<>>
    /\ written' = 0
    /\ pc' = "reading"
    /\ UNCHANGED <<writerVars, encVars>>

\* lines 167-170, one record of the fasta file
ReadRecord(name) ==
    /\ pc = "reading"
    /\ Len(names) < MaxRecords
    /\ names' = Append(names, IndexedName(name, Len(names)))
    /\ UNCHANGED <<writerVars, encVars, pc, files, written, single_file>>

\* lines 172-186, then line 190-192 for a single file
EndOfFasta ==
    /\ pc = "reading"
    /\ pc' = "writing"
    /\ files' = IF single_file THEN WriteFile(files, SingleFilePath, <<>>) ELSE files
    /\ UNCHANGED <<writerVars, encVars, names, written, single_file>>

\* lines 193-196
WriteModel ==
    /\ pc = "writing"
    /\ single_file
    /\ written < Len(names)
    /\ files' = WriteFile(files, SingleFilePath, Append(files[SingleFilePath], written))
    /\ written' = written + 1
    /\ UNCHANGED <<writerVars, encVars, pc, names, single_file>>

\* lines 200-204
WriteBackboneFile ==
    /\ pc = "writing"
    /\ ~single_file
    /\ written < Len(names)
    /\ files' = WriteFile(files, BackboneFilePath(names[written + 1]), <<written>>)
    /\ written' = written + 1
    /\ UNCHANGED <<writerVars, encVars, pc, names, single_file>>

RunDone ==
    /\ pc = "writing"
    /\ written = Len(names)
    /\ pc' = "ran"
    /\ UNCHANGED <<writerVars, encVars, runVars>>

NextRun ==
    \/ \E sf \in BOOLEAN : RunNanonet(sf)
    \/ \E name \in RecordNames : ReadRecord(name)
    \/ EndOfFasta
    \/ WriteModel
    \/ WriteBackboneFile
    \/ RunDone

SpecRun == Init /\ [][NextRun]_vars

----------------------------------------------------------------------------
(* One record through run_nanonet: generate_input (line 174), the model's  *)
(* prediction (line 181) and matrix_to_pdb on the same sequence (line      *)
(* 204).  An exception of generate_input ends the run.  RaiseKeyError is   *)
(* no step of this pipeline: a sequence the encoder accepted holds no      *)
(* character one_to_three rejects within the rows of the matrix.           *)

PredictAndWrite(r) ==
    /\ pc = "encoded"
    /\ CallMatrixToPdb(seq, r)

NextPipeline ==
    \/ \E s \in Inputs : GenerateInput(s)
    \/ SetRow
    \/ GenKeyError
    \/ GenReturn
    \/ \E r \in RowChoices : PredictAndWrite(r)
    \/ SkipGap
    \/ EnterResidue
    \/ RaiseIndexError
    \/ SkipCB
    \/ WriteAtom
    \/ NextResidue
    \/ WriteEnd

SpecPipeline == Init /\ [][NextPipeline]_vars

----------------------------------------------------------------------------
(* Properties *)

InEncoder == pc \in {"gen_for_i", "gen_KeyError", "encoded"}
InWriter == pc \in {"for_aa", "for_j", "done", "IndexError", "KeyError"}

OverAlphabet(s) == \A p \in 1..Len(s) : s[p] \in DOMAIN AA_DICT
Fits(s) == Len(s) <= NB_MAX_LENGTH

\* the front padding the specification prescribes for a sequence of length n
Front(n) == (NB_MAX_LENGTH - n) \div 2

Gaps(n) == [x \in 1..n |-> "-"]

AtomIndices == {x \in 1..Len(out) : out[x].rec = "ATOM"}
RowOf(x) == out[x].x[1]
PrevIsAtom(x) == x > 1 /\ out[x - 1].rec = "ATOM"

\* the records written for row r of the coordinate matrix, in stream order
RecordsOfRow(r) == SelectSeq(out, LAMBDA rcd : rcd.rec = "ATOM" /\ rcd.x[1] = r)

NonGapCount(s) == Cardinality({p \in 1..Len(s) : s[p] # "-"})
GlycineCount(s) == Cardinality({p \in 1..Len(s) : s[p] = "G"})

\* C1: for every sequence of length n <= 140, pad_seq returns a string of
\* length 140 that is front gaps + the sequence + back gaps, with
\* front + n + back = 140 and back - front 0 or 1; the sequence is read back
\* unchanged at positions front .. front+n-1; n = 139 gives 0/1 and n = 3
\* gives 68/69.
C1_PadRoundTrip ==
    (InEncoder /\ Fits(seq)) =>
        LET n == Len(seq) IN
        /\ Len(padded) = 140
        /\ \E front \in 0..140 :
              LET back == 140 - front - n IN
              /\ back - front \in {0, 1}
              /\ padded = Gaps(front) \o seq \o Gaps(back)
              /\ SubSeq(padded, front + 1, front + n) = seq
              /\ n = 139 => (front = 0 /\ back = 1)
              /\ n = 3 => (front = 68 /\ back = 69)

\* C1 witness: a sequence of 139 symbols padded with one gap, at the back
C1_Witness ==
    /\ pc = "encoded"
    /\ Len(seq) = 139
    /\ padded[140] = "-"
    /\ SubSeq(padded, 1, 139) = seq

\* C2: for every sequence of length <= 140 over the alphabet, generate_input
\* returns a 140 x 22 matrix whose every row holds exactly one 1 and 0
\* elsewhere; the 1 of a row is in the column AA_DICT gives the symbol at
\* that position of the padded sequence, column 21 for a padding row.
C2_OneHot ==
    (Fits(seq) /\ OverAlphabet(seq)) =>
        /\ pc # "gen_KeyError"
        /\ pc = "encoded" =>
              LET n == Len(seq)
                  front == Front(n)
                  col(r) == IF r < front \/ r >= front + n
                            THEN 21 ELSE AA_DICT[seq[r - front + 1]]
              IN  /\ DOMAIN seq_matrix = 0..139
                  /\ \A r \in 0..139 :
                        /\ DOMAIN seq_matrix[r] = 0..21
                        /\ \A c \in 0..21 :
                              seq_matrix[r][c] = IF c = col(r) THEN 1 ELSE 0

\* C2 witness: the matrix returned for GXA, rows 68..70, and a padding row
C2_Witness ==
    /\ pc = "encoded"
    /\ seq = <<"G", "X", "A">>
    /\ seq_matrix[68][5] = 1
    /\ seq_matrix[69][20] = 1
    /\ seq_matrix[70][0] = 1
    /\ seq_matrix[71][21] = 1

\* C3: for a sequence of length n <= 140 the encoder and the writer use the
\* same rows: every atom record is read from a row front + p of a residue at
\* position p of the sequence, carries that residue's code, and that row of
\* the encoded matrix is the one-hot of the same residue, never of the gap;
\* a completed call has written every residue from its row.
C3_RowAlignment ==
    (InWriter /\ Fits(seq)) =>
        LET n == Len(seq)
            front == Front(n)
        IN  /\ \A x \in AtomIndices :
                  LET r == RowOf(x)
                      p == r - front
                  IN  /\ p \in 0..(n - 1)
                      /\ At(seq, p) # "-"
                      /\ out[x].y[1] = r
                      /\ out[x].z[1] = r
                      /\ out[x].resName = one_letter_code(At(seq, p))
                      /\ seq_matrix[r][AA_DICT[At(seq, p)]] = 1
                      /\ seq_matrix[r][21] = 0
            /\ pc = "done" =>
                  \A p \in 0..(n - 1) :
                      At(seq, p) # "-" => \E x \in AtomIndices : RowOf(x) = front + p

\* C3 witness: A-G encoded and written, rows 68 and 70 written, row 69 a gap
C3_Witness ==
    /\ pc = "done"
    /\ seq = <<"A", "-", "G">>
    /\ \E x \in AtomIndices : RowOf(x) = 68 /\ out[x].resName = "ALA"
    /\ \E x \in AtomIndices : RowOf(x) = 70 /\ out[x].resName = "GLY"
    /\ seq_matrix[69][21] = 1

\* C4: a call of matrix_to_pdb that returns has written
\* 5 * (non-gap positions) - (Glycine positions) ATOM records, and with a
\* 140-row matrix it returns for every sequence of length <= 140 over the
\* alphabet.
C4_AtomCount ==
    /\ pc = "done" =>
          Cardinality(AtomIndices) = 5 * NonGapCount(seq) - GlycineCount(seq)
    /\ (InWriter /\ rows = 140 /\ Fits(seq) /\ OverAlphabet(seq)) =>
          pc \notin {"IndexError", "KeyError"}

\* C4 witness: 140 residues, one of them Glycine, written as 699 records
C4_Witness ==
    /\ pc = "done"
    /\ rows = 140
    /\ Len(seq) = 140
    /\ GlycineCount(seq) = 1
    /\ Cardinality(AtomIndices) = 699

\* C5 (as claimed): generate_input never returns a matrix for a sequence
\* longer than 140 symbols.
C5_TooLongRejected == Len(seq) > NB_MAX_LENGTH => pc # "encoded"

\* C6 (as claimed): when matrix_to_pdb fails on a coordinate matrix with too
\* few rows, the stream holds what it held before the call.
C6_NoPartialWrite == pc = "IndexError" => out = <<HeaderRecord>>

\* C7 (as claimed): generate_input never returns a matrix for a sequence
\* that holds a symbol outside the alphabet.
C7_UnknownSymbolRejected == ~OverAlphabet(seq) => pc # "encoded"

\* C8: for a sequence of length <= 140 over the alphabet that contains X,
\* generate_input returns (with the warning) and has column 20 set in every
\* X row; matrix_to_pdb, given 140 rows, returns and has written for every X
\* position five records N, CA, C, O, CB with the code UNK, consecutive
\* atom serials and one residue serial.
C8_UnknownResidue ==
    (Fits(seq) /\ OverAlphabet(seq) /\ HasUnknown(seq) /\ pc # "idle") =>
        LET n == Len(seq)
            front == Front(n)
            XRows == {front + p : p \in {q \in 0..(n - 1) : At(seq, q) = "X"}}
        IN  /\ pc # "gen_KeyError"
            /\ warning
            /\ (pc = "encoded" \/ InWriter) => \A r \in XRows : seq_matrix[r][20] = 1
            /\ (InWriter /\ rows = 140) => pc \notin {"IndexError", "KeyError"}
            /\ \A x \in AtomIndices : RowOf(x) \in XRows => out[x].resName = "UNK"
            /\ pc = "done" =>
                  \A r \in XRows :
                      LET rs == RecordsOfRow(r) IN
                      /\ Len(rs) = 5
                      /\ \A q \in 1..5 :
                            /\ rs[q].name = backbone[q]
                            /\ rs[q].resName = "UNK"
                            /\ rs[q].serial = rs[1].serial + q - 1
                            /\ rs[q].resSeq = rs[1].resSeq

\* C8 witness: AXG encoded and written, X as residue 2 with serials 6..10
C8_Witness ==
    /\ pc = "done"
    /\ rows = 140
    /\ seq = <<"A", "X", "G">>
    /\ Len(RecordsOfRow(69)) = 5
    /\ RecordsOfRow(69)[1].resName = "UNK"
    /\ RecordsOfRow(69)[1].serial = 6
    /\ RecordsOfRow(69)[1].resSeq = 2

\* C9 (as claimed): a run in one-file-per-sequence mode over n records ends
\* with n distinct backbone files, each holding its own record.
C9_DistinctFiles ==
    (pc = "ran" /\ ~single_file) => Cardinality(DOMAIN files) = Len(names)

\* C10: within one call, the ATOM records carry the atom serials 1, 2, ...
\* in the order written, with none skipped; the atom counter is one more
\* than the records written; no record comes from a gap position; the
\* records of one residue are N, CA, C, O, CB in order (N, CA, C, O for
\* Glycine) under one residue serial; the residue serial of the r-th non-gap
\* position is r; the residue counter is one more than the non-gap
\* positions passed.
C10_Serials ==
    InWriter =>
        LET passed == {p \in 0..(aa - 1) : At(padded, p) # "-"}
            last == Len(out)
            atoms == AtomIndices
        IN  /\ \A x \in atoms : out[x].serial = x - 1
            /\ k = Cardinality(atoms) + 1
            /\ i = Cardinality(passed) + 1
            /\ \A x \in atoms : At(padded, RowOf(x)) # "-"
            /\ \A x \in atoms :
                  IF PrevIsAtom(x) /\ RowOf(x - 1) = RowOf(x)
                  THEN /\ out[x].resSeq = out[x - 1].resSeq
                       /\ \E q \in 1..4 : /\ out[x - 1].name = backbone[q]
                                          /\ out[x].name = backbone[q + 1]
                  ELSE /\ out[x].name = "N"
                       /\ IF PrevIsAtom(x)
                          THEN /\ out[x].resSeq = out[x - 1].resSeq + 1
                               /\ RowOf(x - 1) < RowOf(x)
                               /\ out[x - 1].name =
                                     IF At(padded, RowOf(x - 1)) = "G" THEN "O" ELSE "CB"
                          ELSE out[x].resSeq = 1
            /\ (last \in atoms) =>
                  out[last].resSeq =
                      Cardinality({p \in 0..RowOf(last) : At(padded, p) # "-"})
            /\ pc = "for_aa" => passed \subseteq {RowOf(x) : x \in atoms}

\* C10 witness: G-A written, serial 5 follows the Glycine's O, residue 2
C10_Witness ==
    /\ pc = "done"
    /\ seq = <<"G", "-", "A">>
    /\ Cardinality(AtomIndices) = 9
    /\ out[5].name = "O" /\ out[5].serial = 4 /\ out[5].resSeq = 1
    /\ out[6].name = "N" /\ out[6].serial = 5 /\ out[6].resSeq = 2

====
